---- MODULE Spec2Model ----
(***************************************************************************)
(* Lending ledger of backend/server.py: the borrow, return and overdue     *)
(* endpoints as request handlers that run concurrently, each `await` on    *)
(* the store (db.books, db.borrows, db.users) being one atomic step; and    *)
(* the scoring endpoints, which read the store.                            *)
(***************************************************************************)
EXTENDS Integers, Sequences, FiniteSets, TLC

----------------------------------------------------------------------------
(* Bounds of the model *)

\* request handlers that may be in flight at once
NProcs == 2
\* loan records (BorrowRecord ids) that may be allocated
MaxLoans == 2
\* last clock value of the concurrent and the serial specification
MaxNow == 1
\* last clock value of the late-return specification
MaxNowLate == 22
\* copies a catalogued book may have
MaxCopies == 2
\* loan records that may be allocated in the scoring specification
MaxScoreLoans == 1
\* clock ticks per day (a tick is half a day): timedelta.days counts full days
DayLen == 2

----------------------------------------------------------------------------
(* Program constants *)

\* BorrowRequest.borrow_days default
DefaultBorrowDays == 14
\* "$1 per day"
FinePerDay == 1

Procs == 1..NProcs
Members == {"u1", "u2"}
Librarians == {"lib"}
UserIds == Members \cup Librarians
BookIds == {"b1", "b2"}
LoanIds == 1..MaxLoans
BorrowDaysChoices == {0, DefaultBorrowDays}

\* Role with every user a librarian
RoleAllLibrarians(u) == IF u \in UserIds THEN "librarian" ELSE "member"

\* User.role
Role(u) == IF u \in Librarians THEN "librarian" ELSE "member"

\* returned_at: Optional[datetime] = None
NoTime == -1

\* BorrowRecord(user_id, book_id, due_date): id and borrowed_at by default
\* factory, returned_at None, status "borrowed", fine_amount 0.0
BorrowRecord(id, u, b, at, due) ==
    [id |-> id, user_id |-> u, book_id |-> b, borrowed_at |-> at,
     due_date |-> due, returned_at |-> NoTime, status |-> "borrowed",
     fine_amount |-> 0]

NoRecord == [id |-> 0, user_id |-> "", book_id |-> "", borrowed_at |-> NoTime,
             due_date |-> NoTime, returned_at |-> NoTime, status |-> "",
             fine_amount |-> 0]

NoReq == [op |-> "", user |-> "", book_id |-> "", borrow_days |-> 0, borrow_id |-> 0]
\* find_one found no book
NoBook == [total_copies |-> 0, available_copies |-> 0, found |-> FALSE]

\* a handler's local variables: book (borrow), borrow_record (borrow, return),
\* overdue_borrows and the loop index (overdue), fine_amount and return_date
\* (return), current_time (overdue)
NoLoc == [book |-> NoBook, record |-> NoRecord, list |-> << >>, i |-> 0,
          fine_amount |-> 0, at |-> NoTime]
NoResp == [status |-> 0, detail |-> "", record |-> NoRecord, fine_amount |-> 0,
           list |-> << >>]

\* a handler's `return`: HTTP 200 with the body's fields
Ok(rec, fine, list) ==
    [status |-> 200, detail |-> "", record |-> rec, fine_amount |-> fine, list |-> list]

\* raise HTTPException(status_code, detail)
HTTPException(code, detail) ==
    [status |-> code, detail |-> detail, record |-> NoRecord, fine_amount |-> 0,
     list |-> << >>]

VARIABLES
    books,      \* db.books: id -> [total_copies, available_copies]
    borrows,    \* db.borrows: the loan documents in insertion order
    users,      \* db.users: id -> [current_borrowings, reading_history]
    now,        \* datetime.utcnow(), in ticks
    nextId,     \* next fresh BorrowRecord id (uuid4)
    pc,         \* per handler: the store call it is about to make
    req,        \* per handler: the request it serves
    loc,        \* per handler: its local variables
    resp        \* per handler: the response, once it has one

vars == <<books, borrows, users, now, nextId, pc, req, loc, resp>>

----------------------------------------------------------------------------
(* Store queries *)

\* index of the first document whose id is `id`, 0 when there is none
FirstWithId(s, id) ==
    IF \E i \in 1..Len(s) : s[i].id = id
    THEN CHOOSE i \in 1..Len(s) : s[i].id = id /\ \A j \in 1..(i - 1) : s[j].id # id
    ELSE 0

\* $pull: removes every occurrence of the value from the array
RECURSIVE Pull(_, _)
Pull(s, x) ==
    IF s = << >> THEN << >>
    ELSE IF Head(s) = x THEN Pull(Tail(s), x)
    ELSE <<Head(s)>> \o Pull(Tail(s), x)

\* FindBook with a missing document read as a book that has no copies
FindBookOrEmpty(bs, b) ==
    IF b \in DOMAIN bs
    THEN [total_copies |-> bs[b].total_copies,
          available_copies |-> bs[b].available_copies, found |-> TRUE]
    ELSE [total_copies |-> 0, available_copies |-> 0, found |-> TRUE]

\* db.books.find_one({"id": b}): the document, or None
FindBook(bs, b) ==
    IF b \in DOMAIN bs
    THEN [total_copies |-> bs[b].total_copies,
          available_copies |-> bs[b].available_copies, found |-> TRUE]
    ELSE NoBook

\* IncCopies writing to every book of the catalogue
IncCopiesOfAll(bs, b, delta) ==
    [c \in DOMAIN bs |-> [bs[c] EXCEPT !.available_copies = @ + delta]]

\* IncCopies with the increment lost: only the decrement reaches the store
IncCopiesDecOnly(bs, b, delta) ==
    IF b \in DOMAIN bs /\ delta < 0
    THEN [bs EXCEPT ![b].available_copies = @ + delta]
    ELSE bs

\* {"$inc": {"available_copies": delta}} on the book with that id, if any
IncCopies(bs, b, delta) ==
    IF b \in DOMAIN bs
    THEN [bs EXCEPT ![b].available_copies = @ + delta]
    ELSE bs

\* FineAmount charging every started day: the days rounded up
FineAmountStartedDays(return_date, due_date) ==
    IF return_date > due_date
    THEN ((return_date - due_date + DayLen - 1) \div DayLen) * FinePerDay
    ELSE 0

\* (return_date - due_date).days * 1.0 when return_date > due_date, else 0.0
FineAmount(return_date, due_date) ==
    IF return_date > due_date
    THEN ((return_date - due_date) \div DayLen) * FinePerDay
    ELSE 0

\* SetReturned as a delete: the returned loan leaves the collection
SetReturnedDeleting(s, id, return_date, fine) ==
    LET Other(r) == r.id # id IN SelectSeq(s, Other)

\* SetReturned with the status left as it was
SetReturnedKeepingStatus(s, id, return_date, fine) ==
    [i \in 1..Len(s) |->
        IF i = FirstWithId(s, id)
        THEN [s[i] EXCEPT !.returned_at = return_date, !.fine_amount = fine]
        ELSE s[i]]

\* {"$set": {"returned_at", "status": "returned", "fine_amount"}} by id
SetReturned(s, id, return_date, fine) ==
    [i \in 1..Len(s) |->
        IF i = FirstWithId(s, id)
        THEN [s[i] EXCEPT !.returned_at = return_date, !.status = "returned",
                          !.fine_amount = fine]
        ELSE s[i]]

\* {"$set": {"status": "overdue"}} by id
SetOverdue(s, id) ==
    [i \in 1..Len(s) |->
        IF i = FirstWithId(s, id) THEN [s[i] EXCEPT !.status = "overdue"] ELSE s[i]]

\* the filter of the duplicate check: user_id, book_id and status "borrowed"
IsExistingBorrow(r, u, b) ==
    r.user_id = u /\ r.book_id = b /\ r.status = "borrowed"

\* IsOverdueBorrow with the comparison turned round: $gt for $lt
IsOverdueBorrowFlipped(r, current_time) ==
    r.status = "borrowed" /\ r.due_date > current_time

\* IsOverdueBorrow without the test of the status: every loan past due
IsPastDue(r, current_time) ==
    r.due_date < current_time

\* IsOverdueBorrow with the loans due just now taken too: $lte for $lt
IsOverdueBorrowInclusive(r, current_time) ==
    r.status = "borrowed" /\ r.due_date <= current_time

\* the filter of the sweep: status "borrowed" and due_date < current_time
IsOverdueBorrow(r, current_time) ==
    r.status = "borrowed" /\ r.due_date < current_time

\* db.borrows.find(sweep filter).to_list(1000): the matches in store order
OverdueBorrows(s, current_time) ==
    LET Test(r) == IsOverdueBorrow(r, current_time) IN SelectSeq(s, Test)

----------------------------------------------------------------------------
Init ==
    /\ books \in [{"b1"} -> {[total_copies |-> n, available_copies |-> n] :
                              n \in 1..MaxCopies}]
    /\ borrows = << >>
    /\ users = [u \in UserIds |-> [current_borrowings |-> << >>,
                                   reading_history |-> << >>]]
    /\ now = 0
    /\ nextId = 1
    /\ pc = [p \in Procs |-> "idle"]
    /\ req = [p \in Procs |-> NoReq]
    /\ loc = [p \in Procs |-> NoLoc]
    /\ resp = [p \in Procs |-> NoResp]

\* the handler ends with locals l: its response r is ready
Finish(p, r, l) ==
    /\ pc' = [pc EXCEPT ![p] = "done"]
    /\ resp' = [resp EXCEPT ![p] = r]
    /\ loc' = [loc EXCEPT ![p] = l]

\* the handler goes on to its next store call
Goto(p, label, l) ==
    /\ pc' = [pc EXCEPT ![p] = label]
    /\ loc' = [loc EXCEPT ![p] = l]
    /\ UNCHANGED resp

\* fewer than `most` loan ids are allocated or about to be
CanAllocate(most) ==
    (nextId - 1) + Cardinality({q \in Procs : pc[q] = "b_existing"}) < most

(* POST /borrow *)

\* find_one on db.books, then the existence and availability checks
BorrowFindBook(p, u, b, d) ==
    /\ pc[p] = "idle"
    /\ req' = [req EXCEPT ![p] = [op |-> "borrow", user |-> u, book_id |-> b,
                                  borrow_days |-> d, borrow_id |-> 0]]
    /\ LET book == FindBook(books, b)
           l == [NoLoc EXCEPT !.book = book]
       IN IF ~book.found
          THEN Finish(p, HTTPException(404, "Book not found"), l)
          ELSE IF book.available_copies <= 0
          THEN Finish(p, HTTPException(400, "Book not available"), l)
          ELSE Goto(p, "b_existing", l)
    /\ UNCHANGED <<books, borrows, users, now, nextId>>

\* find_one on db.borrows for the duplicate check, then the new BorrowRecord
BorrowFindExisting(p) ==
    /\ pc[p] = "b_existing"
    /\ LET u == req[p].user
           b == req[p].book_id
           Test(r) == IsExistingBorrow(r, u, b)
           existing_borrow == SelectSeq(borrows, Test)
           due_date == now + req[p].borrow_days * DayLen
       IN IF existing_borrow # << >>
          THEN /\ Finish(p, HTTPException(400, "You already have this book borrowed"),
                         loc[p])
               /\ UNCHANGED nextId
          ELSE /\ Goto(p, "b_dec",
                       [loc[p] EXCEPT !.record = BorrowRecord(nextId, u, b, now, due_date)])
               /\ nextId' = nextId + 1
    /\ UNCHANGED <<books, borrows, users, now, req>>

\* update_one on db.books: $inc available_copies by -1
BorrowDecBook(p) ==
    /\ pc[p] = "b_dec"
    /\ books' = IncCopies(books, req[p].book_id, -1)
    /\ Goto(p, "b_push", loc[p])
    /\ UNCHANGED <<borrows, users, now, nextId, req>>

\* update_one on db.users: $push the record id to current_borrowings
BorrowPushUser(p) ==
    /\ pc[p] = "b_push"
    /\ users' = [users EXCEPT ![req[p].user].current_borrowings =
                                  Append(@, loc[p].record.id)]
    /\ Goto(p, "b_insert", loc[p])
    /\ UNCHANGED <<books, borrows, now, nextId, req>>

\* insert_one on db.borrows, then return borrow_record
BorrowInsert(p) ==
    /\ pc[p] = "b_insert"
    /\ borrows' = Append(borrows, loc[p].record)
    /\ Finish(p, Ok(loc[p].record, 0, << >>), loc[p])
    /\ UNCHANGED <<books, users, now, nextId, req>>

\* insert_one on db.borrows raises (the store refuses the write): the handler
\* has no except clause, the exception leaves it and the server answers 500
BorrowInsertFails(p) ==
    /\ pc[p] = "b_insert"
    /\ Finish(p, HTTPException(500, "Internal Server Error"), loc[p])
    /\ UNCHANGED <<books, borrows, users, now, nextId, req>>

(* POST /return *)

\* find_one on db.borrows, the three checks, then the fine
ReturnFind(p, u, id) ==
    /\ pc[p] = "idle"
    /\ req' = [req EXCEPT ![p] = [op |-> "return", user |-> u, book_id |-> "",
                                  borrow_days |-> 0, borrow_id |-> id]]
    /\ LET i == FirstWithId(borrows, id)
           borrow_record == IF i = 0 THEN NoRecord ELSE borrows[i]
           l == [NoLoc EXCEPT !.record = borrow_record]
       IN IF i = 0
          THEN Finish(p, HTTPException(404, "Borrow record not found"), l)
          ELSE IF borrow_record.user_id # u /\ Role(u) # "librarian"
          THEN Finish(p, HTTPException(403, "Not authorized to return this book"), l)
          ELSE IF borrow_record.status = "returned"
          THEN Finish(p, HTTPException(400, "Book already returned"), l)
          ELSE Goto(p, "r_update",
                    [l EXCEPT !.at = now,
                              !.fine_amount = FineAmount(now, borrow_record.due_date)])
    /\ UNCHANGED <<books, borrows, users, now, nextId>>

\* update_one on db.borrows: $set returned_at, status and fine_amount
ReturnUpdateBorrow(p) ==
    /\ pc[p] = "r_update"
    /\ borrows' = SetReturned(borrows, req[p].borrow_id, loc[p].at, loc[p].fine_amount)
    /\ Goto(p, "r_inc", loc[p])
    /\ UNCHANGED <<books, users, now, nextId, req>>

\* update_one on db.books: $inc available_copies by 1
ReturnIncBook(p) ==
    /\ pc[p] = "r_inc"
    /\ books' = IncCopies(books, loc[p].record.book_id, 1)
    /\ Goto(p, "r_user", loc[p])
    /\ UNCHANGED <<borrows, users, now, nextId, req>>

\* update_one on db.users: $pull the id, $push the book to reading_history
ReturnUpdateUser(p) ==
    /\ pc[p] = "r_user"
    /\ users' = [users EXCEPT ![loc[p].record.user_id] =
                    [current_borrowings |-> Pull(@.current_borrowings, req[p].borrow_id),
                     reading_history |-> Append(@.reading_history,
                                                loc[p].record.book_id)]]
    /\ Finish(p, Ok(NoRecord, loc[p].fine_amount, << >>), loc[p])
    /\ UNCHANGED <<books, borrows, now, nextId, req>>

(* GET /overdue *)

\* the role check, then find on db.borrows: the borrowed loans past their due date
SweepFind(p, u) ==
    /\ pc[p] = "idle"
    /\ req' = [req EXCEPT ![p] = [op |-> "overdue", user |-> u, book_id |-> "",
                                  borrow_days |-> 0, borrow_id |-> 0]]
    /\ LET overdue_borrows == OverdueBorrows(borrows, now)
           l == [NoLoc EXCEPT !.list = overdue_borrows, !.at = now]
       IN IF Role(u) # "librarian"
          THEN Finish(p, HTTPException(403, "Only librarians can view overdue books"),
                      NoLoc)
          ELSE IF overdue_borrows = << >>
          THEN Finish(p, Ok(NoRecord, 0, << >>), l)
          ELSE Goto(p, "s_update", [l EXCEPT !.i = 1])
    /\ UNCHANGED <<books, borrows, users, now, nextId>>

\* one turn of the first loop: update_one on db.borrows sets the status of the
\* next selected loan to "overdue"; the second loop only reads, and the handler
\* returns the loans as it selected them
SweepUpdate(p) ==
    /\ pc[p] = "s_update"
    /\ LET overdue_borrows == loc[p].list
           i == loc[p].i
       IN /\ borrows' = SetOverdue(borrows, overdue_borrows[i].id)
          /\ IF i = Len(overdue_borrows)
             THEN Finish(p, Ok(NoRecord, 0, overdue_borrows), loc[p])
             ELSE Goto(p, "s_update", [loc[p] EXCEPT !.i = i + 1])
    /\ UNCHANGED <<books, users, now, nextId, req>>

\* the response leaves the server and the handler is free for the next request
Reply(p) ==
    /\ pc[p] = "done"
    /\ pc' = [pc EXCEPT ![p] = "idle"]
    /\ req' = [req EXCEPT ![p] = NoReq]
    /\ resp' = [resp EXCEPT ![p] = NoResp]
    /\ loc' = [loc EXCEPT ![p] = NoLoc]
    /\ UNCHANGED <<books, borrows, users, now, nextId>>

\* time passes
Tick(last) ==
    /\ now < last
    /\ now' = now + 1
    /\ UNCHANGED <<books, borrows, users, nextId, pc, req, loc, resp>>

\* a step of handler p on a request in flight
Continue(p) ==
    \/ BorrowFindExisting(p)
    \/ BorrowDecBook(p)
    \/ BorrowPushUser(p)
    \/ BorrowInsert(p)
    \/ ReturnUpdateBorrow(p)
    \/ ReturnIncBook(p)
    \/ ReturnUpdateUser(p)
    \/ SweepUpdate(p)
    \/ Reply(p)

(* Requests served concurrently: the handlers interleave at their store calls *)
Next ==
    \/ \E p \in Procs :
        \/ \E u \in Members :
            CanAllocate(MaxLoans) /\ BorrowFindBook(p, u, "b1", 0)
        \/ \E u \in Members, id \in LoanIds : ReturnFind(p, u, id)
        \/ SweepFind(p, "lib")
        \/ Continue(p)
    \/ Tick(MaxNow)

Spec == Init /\ [][Next]_vars

(* Requests served one at a time, by a single handler *)
NextSeq ==
    \/ \E u \in Members, b \in BookIds, d \in BorrowDaysChoices :
        CanAllocate(MaxLoans) /\ BorrowFindBook(1, u, b, d)
    \/ \E u \in UserIds, id \in LoanIds : ReturnFind(1, u, id)
    \/ \E u \in UserIds : SweepFind(1, u)
    \/ Continue(1)
    \/ Tick(MaxNow)

SpecSeq == Init /\ [][NextSeq]_vars

(* One loan followed over eleven days, requests served one at a time *)
NextLate ==
    \/ \E u \in Members, d \in BorrowDaysChoices :
        CanAllocate(1) /\ BorrowFindBook(1, u, "b1", d)
    \/ \E u \in UserIds : ReturnFind(1, u, 1)
    \/ \E u \in UserIds : SweepFind(1, u)
    \/ Continue(1)
    \/ Tick(MaxNowLate)

SpecLate == Init /\ [][NextLate]_vars

(* Requests served one at a time, by a store that may refuse to insert a loan *)
NextFail ==
    \/ \E u \in Members, b \in BookIds, d \in BorrowDaysChoices :
        CanAllocate(MaxLoans) /\ BorrowFindBook(1, u, b, d)
    \/ \E u \in UserIds, id \in LoanIds : ReturnFind(1, u, id)
    \/ \E u \in UserIds : SweepFind(1, u)
    \/ Continue(1)
    \/ BorrowInsertFails(1)
    \/ Tick(MaxNow)

SpecFail == Init /\ [][NextFail]_vars

\* two books, each with all its copies in
InitShelf ==
    /\ books = [b \in BookIds |-> [total_copies |-> MaxCopies,
                                    available_copies |-> MaxCopies]]
    /\ borrows = << >>
    /\ users = [u \in UserIds |-> [current_borrowings |-> << >>,
                                   reading_history |-> << >>]]
    /\ now = 0
    /\ nextId = 1
    /\ pc = [p \in Procs |-> "idle"]
    /\ req = [p \in Procs |-> NoReq]
    /\ loc = [p \in Procs |-> NoLoc]
    /\ resp = [p \in Procs |-> NoResp]

(* The ledger of two books, requests served one at a time *)
NextShelf ==
    \/ \E u \in Members, b \in BookIds, d \in BorrowDaysChoices :
        CanAllocate(MaxLoans) /\ BorrowFindBook(1, u, b, d)
    \/ \E u \in Members, id \in LoanIds : ReturnFind(1, u, id)
    \/ SweepFind(1, "lib")
    \/ Continue(1)
    \/ Tick(MaxNow)

SpecShelf == InitShelf /\ [][NextShelf]_vars

----------------------------------------------------------------------------
(* Scoring endpoints: recommendations, demand forecast, overdue predictions. *)
(* Each handler only reads the store; it is one action, as the requests of   *)
(* the specification that has them are served one at a time.                 *)

\* catalogue of the scoring specification
ScoreBookIds == {"b1", "b2", "b3"}
\* a user id that is not in db.users
UnknownUser == "nobody"

\* the books of a large catalogue that nobody reads: more of them, with the
\* named ones, than the forecast keeps
ShelfBooks ==
    <<"s01", "s02", "s03", "s04", "s05", "s06", "s07", "s08", "s09",
      "s10", "s11", "s12", "s13", "s14", "s15", "s16", "s17">>

\* Book.genre, Book.tags and Book.created_at of the catalogue's books: create_book
\* sets them and no handler of the model changes them. Of the named books b4
\* was catalogued first, then b2, b3 and b1; the shelf came before them, s01
\* last. A book has at most two tags, so that common_tags never has more
\* than the two names the reason keeps.
Catalog ==
    [b1 |-> [genre |-> "fantasy", tags |-> {"magic", "quest"}, created_at |-> -1],
     b2 |-> [genre |-> "fantasy", tags |-> {"magic"}, created_at |-> -3],
     b3 |-> [genre |-> "science", tags |-> {"quest", "space"}, created_at |-> -2],
     b4 |-> [genre |-> "science", tags |-> {"space"}, created_at |-> -4]]
    @@ [b \in {ShelfBooks[i] : i \in 1..Len(ShelfBooks)} |->
           [genre |-> "reference", tags |-> {},
            created_at |-> -4 - (CHOOSE i \in 1..Len(ShelfBooks) : ShelfBooks[i] = b)]]

\* limit: int = 5
DefaultLimit == 5
\* .limit(5) of the dashboard's recent activity
RecentActivity == 5
LimitChoices == {1, 2, 3, DefaultLimit}

\* similarity_score in tenths: 0.5 for a popular book, 0.5 for the genre, 0.2
\* for each common tag
PopularScore == 5
GenreScore == 5
TagScore == 2

\* timedelta(days=30)
ForecastDays == 30
\* predicted_demand = recent_borrows * 2
DemandFactor == 2
\* confidence in tenths: min(0.9, 0.5 + recent_borrows * 0.1)
ConfidenceBase == 5
ConfidenceStep == 1
ConfidenceMax == 9
\* forecasts[:20]
ForecastLimit == 20

\* probability in hundredths: 0.95 when due, 0.7 + rate * 0.2 within two days,
\* 0.4 + rate * 0.3 within five, else the rate
ProbabilityDue == 95
ProbabilitySoon == 70
RateFactorSoon == 20
DaysSoon == 2
ProbabilityNear == 40
RateFactorNear == 30
DaysNear == 5
Hundred == 100

\* find() without a sort: the books of S as they were inserted, the first
\* catalogued first
RECURSIVE OldestFirst(_)
OldestFirst(S) ==
    IF S = {} THEN << >>
    ELSE LET b == CHOOSE x \in S :
                    \A y \in S : Catalog[x].created_at <= Catalog[y].created_at
         IN <<b>> \o OldestFirst(S \ {b})

\* NewestFirst with the sort turned round: sort("created_at", 1)
NewestFirstAscending(S) == OldestFirst(S)

\* sort("created_at", -1): the books of S, the last catalogued first
RECURSIVE NewestFirst(_)
NewestFirst(S) ==
    IF S = {} THEN << >>
    ELSE LET b == CHOOSE x \in S :
                    \A y \in S : Catalog[y].created_at <= Catalog[x].created_at
         IN <<b>> \o NewestFirst(S \ {b})

\* s[:n], and limit(n).to_list(n) for n > 0
Take(s, n) == SubSeq(s, 1, IF n < Len(s) THEN n ELSE Len(s))

\* SortedDesc with equal keys in the reverse of their order in s
SortedDescLastFirst(s, key) ==
    LET Rank(i) == Cardinality({j \in 1..Len(s) : key[j] > key[i]})
                   + Cardinality({j \in (i + 1)..Len(s) : key[j] = key[i]}) + 1
    IN [r \in 1..Len(s) |-> s[CHOOSE i \in 1..Len(s) : Rank(i) = r]]

\* list.sort(key=..., reverse=True), key[i] being the key of s[i]: by
\* decreasing key, elements of equal key in the order they had (the sort is
\* stable)
SortedDesc(s, key) ==
    LET Rank(i) == Cardinality({j \in 1..Len(s) : key[j] > key[i]})
                   + Cardinality({j \in 1..(i - 1) : key[j] = key[i]}) + 1
    IN [r \in 1..Len(s) |-> s[CHOOSE i \in 1..Len(s) : Rank(i) = r]]

\* the elements of a list
Range(s) == {s[i] : i \in 1..Len(s)}

\* the branch for an empty reading history: the `limit` newest books, each
\* with score 0.5 and reason "Popular book". Of a book the answers of the
\* scoring endpoints keep the id: title and author go with it
PopularBooks(bs, limit) ==
    LET popular_books == Take(NewestFirst(DOMAIN bs), limit)
    IN [i \in 1..Len(popular_books) |->
           [book_id |-> popular_books[i], similarity_score |-> PopularScore,
            reason |-> <<[kind |-> "Popular book", of |-> {}]>>]]

\* the branch for a reading history: content-based scores of the books not
\* read, the positive ones, by decreasing score, cut to `limit`. The reason is
\* the list that "; ".join puts together; of common_tags it names two at most
SimilarBooks(reading_history, bs, limit) ==
    LET read_books == {b \in DOMAIN bs : b \in Range(reading_history)}
        all_books == OldestFirst(DOMAIN bs)
        user_genres == {Catalog[b].genre : b \in read_books}
        user_tags == UNION {Catalog[b].tags : b \in read_books}
        common_tags(b) == user_tags \cap Catalog[b].tags
        score(b) == (IF Catalog[b].genre \in user_genres THEN GenreScore ELSE 0)
                    + Cardinality(common_tags(b)) * TagScore
        reasons(b) ==
            (IF Catalog[b].genre \in user_genres
             THEN <<[kind |-> "Similar genre", of |-> {Catalog[b].genre}]>>
             ELSE << >>)
            \o (IF common_tags(b) # {}
                THEN <<[kind |-> "Common tags", of |-> common_tags(b)]>>
                ELSE << >>)
        Kept(b) == b \notin Range(reading_history) /\ score(b) > 0
        kept == SelectSeq(all_books, Kept)
        recommendations ==
            [i \in 1..Len(kept) |->
                [book_id |-> kept[i], similarity_score |-> score(kept[i]),
                 reason |-> reasons(kept[i])]]
        key == [i \in 1..Len(kept) |-> recommendations[i].similarity_score]
    IN Take(SortedDesc(recommendations, key), limit)

\* GET /recommendations/{user_id}?limit=
Recommend(p, u, limit) ==
    /\ pc[p] = "idle"
    /\ req' = [req EXCEPT ![p] = [op |-> "recommend", user |-> u, book_id |-> "",
                                  borrow_days |-> 0, borrow_id |-> 0,
                                  limit |-> limit]]
    /\ IF u \notin DOMAIN users
       THEN Finish(p, HTTPException(404, "User not found"), NoLoc)
       ELSE LET reading_history == users[u].reading_history
            IN IF reading_history = << >>
               THEN Finish(p, Ok(NoRecord, 0, PopularBooks(books, limit)), NoLoc)
               ELSE Finish(p, Ok(NoRecord, 0,
                                 SimilarBooks(reading_history, books, limit)), NoLoc)
    /\ UNCHANGED <<books, borrows, users, now, nextId>>

\* RecentBorrows without the window: the loans of the book of all times
RecentBorrowsEver(s, b, current_time) ==
    Cardinality({i \in 1..Len(s) : s[i].book_id = b})

\* count_documents({"book_id", "borrowed_at": {"$gte": thirty_days_ago}})
RecentBorrows(s, b, current_time) ==
    Cardinality({i \in 1..Len(s) :
                    /\ s[i].book_id = b
                    /\ s[i].borrowed_at >= current_time - ForecastDays * DayLen})

\* the forecasts of all books, by decreasing predicted_demand, cut to 20
Forecasts(bs, s, current_time) ==
    LET all_books == OldestFirst(DOMAIN bs)
        confidence(n) == IF ConfidenceBase + n * ConfidenceStep < ConfidenceMax
                         THEN ConfidenceBase + n * ConfidenceStep
                         ELSE ConfidenceMax
        forecasts ==
            [i \in 1..Len(all_books) |->
                LET recent_borrows == RecentBorrows(s, all_books[i], current_time)
                IN [book_id |-> all_books[i],
                    predicted_demand |-> recent_borrows * DemandFactor,
                    confidence |-> confidence(recent_borrows)]]
        key == [i \in 1..Len(all_books) |-> forecasts[i].predicted_demand]
    IN Take(SortedDesc(forecasts, key), ForecastLimit)

\* GET /analytics/demand-forecast
ForecastDemand(p, u) ==
    /\ pc[p] = "idle"
    /\ req' = [req EXCEPT ![p] = [op |-> "forecast", user |-> u, book_id |-> "",
                                  borrow_days |-> 0, borrow_id |-> 0]]
    /\ IF Role(u) # "librarian"
       THEN Finish(p, HTTPException(403, "Only librarians can view analytics"), NoLoc)
       ELSE Finish(p, Ok(NoRecord, 0, Forecasts(books, borrows, now)), NoLoc)
    /\ UNCHANGED <<books, borrows, users, now, nextId>>

\* count_documents({"user_id", "status": {"$in": ["overdue", "returned"]},
\* "returned_at": {"$gt": "$due_date"}}): the operand is the string "$due_date",
\* not the field, and a comparison operator matches values of the operand's
\* type only; returned_at holds a datetime or None, so no document matches
UserOverdueCount(s, u) ==
    LET ReturnedAtIsString(r) == FALSE
    IN Cardinality({i \in 1..Len(s) :
                       /\ s[i].user_id = u
                       /\ s[i].status \in {"overdue", "returned"}
                       /\ ReturnedAtIsString(s[i])})

\* probability, in hundredths, from days_until_due and the user's counts
Probability(days_until_due, user_overdue_count, user_total_borrows) ==
    LET total == IF user_total_borrows > 1 THEN user_total_borrows ELSE 1
    IN IF days_until_due <= 0 THEN ProbabilityDue
       ELSE IF days_until_due <= DaysSoon
       THEN ProbabilitySoon + (user_overdue_count * RateFactorSoon) \div total
       ELSE IF days_until_due <= DaysNear
       THEN ProbabilityNear + (user_overdue_count * RateFactorNear) \div total
       ELSE (user_overdue_count * Hundred) \div total

\* risk_level of a probability
RiskLevel(probability) ==
    IF probability >= ProbabilitySoon THEN "High"
    ELSE IF probability >= ProbabilityNear THEN "Medium"
    ELSE "Low"

\* the predictions for the loans in status "borrowed" whose user and book
\* exist, by decreasing probability
Predictions(bs, s, us, current_time) ==
    LET IsBorrowed(r) == r.status = "borrowed"
        current_borrows == SelectSeq(s, IsBorrowed)
        Known(r) == r.user_id \in DOMAIN us /\ r.book_id \in DOMAIN bs
        known == SelectSeq(current_borrows, Known)
        predictions ==
            [i \in 1..Len(known) |->
                LET borrow == known[i]
                    days_until_due == (borrow.due_date - current_time) \div DayLen
                    user_total_borrows ==
                        Cardinality({j \in 1..Len(s) : s[j].user_id = borrow.user_id})
                    probability ==
                        Probability(days_until_due,
                                    UserOverdueCount(s, borrow.user_id),
                                    user_total_borrows)
                IN [borrow_id |-> borrow.id, user_id |-> borrow.user_id,
                    book_id |-> borrow.book_id, probability |-> probability,
                    risk_level |-> RiskLevel(probability)]]
        key == [i \in 1..Len(known) |-> predictions[i].probability]
    IN SortedDesc(predictions, key)

\* OverdueRisk run as a sweep too: the loans it finds past due are set overdue
OverdueRiskSweeping(p, u) ==
    /\ pc[p] = "idle"
    /\ req' = [req EXCEPT ![p] = [op |-> "risk", user |-> u, book_id |-> "",
                                  borrow_days |-> 0, borrow_id |-> 0]]
    /\ IF Role(u) # "librarian"
       THEN /\ Finish(p, HTTPException(403, "Only librarians can view analytics"), NoLoc)
            /\ UNCHANGED borrows
       ELSE /\ Finish(p, Ok(NoRecord, 0, Predictions(books, borrows, users, now)), NoLoc)
            /\ borrows' = [i \in 1..Len(borrows) |->
                              IF IsOverdueBorrow(borrows[i], now)
                              THEN [borrows[i] EXCEPT !.status = "overdue"]
                              ELSE borrows[i]]
    /\ UNCHANGED <<books, users, now, nextId>>

\* GET /analytics/overdue-predictions
OverdueRisk(p, u) ==
    /\ pc[p] = "idle"
    /\ req' = [req EXCEPT ![p] = [op |-> "risk", user |-> u, book_id |-> "",
                                  borrow_days |-> 0, borrow_id |-> 0]]
    /\ IF Role(u) # "librarian"
       THEN Finish(p, HTTPException(403, "Only librarians can view analytics"), NoLoc)
       ELSE Finish(p, Ok(NoRecord, 0, Predictions(books, borrows, users, now)), NoLoc)
    /\ UNCHANGED <<books, borrows, users, now, nextId>>

\* a catalogue of some of the books, each with all its copies in
InitScore ==
    /\ \E S \in SUBSET ScoreBookIds :
          books = [b \in S |-> [total_copies |-> MaxCopies,
                                available_copies |-> MaxCopies]]
    /\ borrows = << >>
    /\ users = [u \in UserIds |-> [current_borrowings |-> << >>,
                                   reading_history |-> << >>]]
    /\ now = 0
    /\ nextId = 1
    /\ pc = [p \in Procs |-> "idle"]
    /\ req = [p \in Procs |-> NoReq]
    /\ loc = [p \in Procs |-> NoLoc]
    /\ resp = [p \in Procs |-> NoResp]

(* The ledger and the scoring endpoints, requests served one at a time *)
NextScore ==
    \/ \E u \in Members, b \in ScoreBookIds, d \in BorrowDaysChoices :
        CanAllocate(MaxScoreLoans) /\ BorrowFindBook(1, u, b, d)
    \/ \E u \in Members, id \in 1..MaxScoreLoans : ReturnFind(1, u, id)
    \/ SweepFind(1, "lib")
    \/ \E u \in Members \cup {UnknownUser}, limit \in LimitChoices :
        Recommend(1, u, limit)
    \/ \E u \in UserIds : ForecastDemand(1, u)
    \/ \E u \in UserIds : OverdueRisk(1, u)
    \/ Continue(1)
    \/ Tick(MaxNow)

SpecScore == InitScore /\ [][NextScore]_vars

(* The recommendations alone, over the reading histories of one member *)

\* catalogue of the recommendations
RecBookIds == {"b1", "b2", "b3", "b4"}
\* length of the longest reading history
MaxHistory == 2
\* the reading histories over the books of S
Histories(S) == UNION {[1..n -> S] : n \in 0..MaxHistory}

\* the store after u1 borrowed and returned the books of a history h, one after
\* the other and each on the spot: the loans are all returned, the copies all
\* back, and the history is h
InitRec ==
    /\ \E S \in SUBSET RecBookIds : \E h \in Histories(S) :
          /\ books = [b \in S |-> [total_copies |-> MaxCopies,
                                    available_copies |-> MaxCopies]]
          /\ borrows = [i \in 1..Len(h) |->
                           [BorrowRecord(i, "u1", h[i], 0, 0)
                               EXCEPT !.returned_at = 0, !.status = "returned"]]
          /\ users = [u \in UserIds |->
                         [current_borrowings |-> << >>,
                          reading_history |-> IF u = "u1" THEN h ELSE << >>]]
          /\ nextId = Len(h) + 1
    /\ now = 0
    /\ pc = [p \in Procs |-> "idle"]
    /\ req = [p \in Procs |-> NoReq]
    /\ loc = [p \in Procs |-> NoLoc]
    /\ resp = [p \in Procs |-> NoResp]

NextRec ==
    \/ \E u \in Members \cup {UnknownUser}, limit \in LimitChoices :
        Recommend(1, u, limit)
    \/ Reply(1)

SpecRec == InitRec /\ [][NextRec]_vars

(* The demand forecast alone, over ledgers that are older than its window *)

\* most loans of one book
MaxRecent == 6
\* the whole catalogue: more books than the forecast keeps
AllBookIds == DOMAIN Catalog
\* the time of the old loans and the time of the new ones
OldTime == 0
NewTime == 1

\* The store after `old` loans of b1 at OldTime, `new` loans of b1 at NewTime
\* and `other` loans of b3 at NewTime. The first loan is u2's, taken for no
\* days: it is overdue if it is an old one (the sweep ran at NewTime before the
\* new loans) and borrowed if not. The others are u1's: returned on the spot,
\* but for the last of b1, which is still borrowed. The loan of b3 is u2's,
\* returned on the spot.
ForecastLedger(old, new, other) ==
    LET n == old + new
        At(i) == IF i <= old THEN OldTime ELSE NewTime
        OnB1(i) ==
            IF i = 1
            THEN [BorrowRecord(i, "u2", "b1", At(i), At(i))
                     EXCEPT !.status = IF old >= 1 THEN "overdue" ELSE "borrowed"]
            ELSE IF i = n
            THEN BorrowRecord(i, "u1", "b1", At(i),
                              At(i) + DefaultBorrowDays * DayLen)
            ELSE [BorrowRecord(i, "u1", "b1", At(i), At(i))
                     EXCEPT !.returned_at = At(i), !.status = "returned"]
        OnB3(i) ==
            [BorrowRecord(i, "u2", "b3", NewTime, NewTime)
                EXCEPT !.returned_at = NewTime, !.status = "returned"]
    IN [i \in 1..(n + other) |-> IF i <= n THEN OnB1(i) ELSE OnB3(i)]

InitForecast ==
    /\ \E S \in {{"b1"}, {"b1", "b2", "b3"}, AllBookIds} :
       \E old \in 0..MaxRecent : \E new \in 0..(MaxRecent - old) :
       \E other \in 0..(IF "b3" \in S THEN 1 ELSE 0) :
          LET ledger == ForecastLedger(old, new, other)
              Held(b) == Cardinality({i \in 1..Len(ledger) :
                                        /\ ledger[i].book_id = b
                                        /\ ledger[i].status # "returned"})
              Kept(u) == LET Mine(r) == r.user_id = u /\ r.status # "returned"
                             mine == SelectSeq(ledger, Mine)
                         IN [i \in 1..Len(mine) |-> mine[i].id]
              Read(u) == LET Mine(r) == r.user_id = u /\ r.status = "returned"
                             mine == SelectSeq(ledger, Mine)
                         IN [i \in 1..Len(mine) |-> mine[i].book_id]
          IN /\ books = [b \in S |-> [total_copies |-> MaxCopies,
                                       available_copies |-> MaxCopies - Held(b)]]
             /\ borrows = ledger
             /\ users = [u \in UserIds |-> [current_borrowings |-> Kept(u),
                                             reading_history |-> Read(u)]]
             /\ nextId = Len(ledger) + 1
    /\ now \in {NewTime} \cup {ForecastDays * DayLen + t : t \in 0..2}
    /\ pc = [p \in Procs |-> "idle"]
    /\ req = [p \in Procs |-> NoReq]
    /\ loc = [p \in Procs |-> NoLoc]
    /\ resp = [p \in Procs |-> NoResp]

NextForecast ==
    \/ \E u \in UserIds : ForecastDemand(1, u)
    \/ Reply(1)

SpecForecast == InitForecast /\ [][NextForecast]_vars

(* The overdue predictions alone, over users with a past *)

\* most past loans of the user u1
MaxPast == 2
\* the ways a past loan ended: returned in time, returned after its due date,
\* or found past due by the sweep and never returned
PastKinds == {"in time", "late", "swept"}
\* borrow_days of the current loans: the edges of the branches of the
\* probability
RiskDaysChoices == {0, 1, DaysSoon, DaysSoon + 1, DaysNear, DaysNear + 1}

\* The store after u1's past loans of b1, all taken at OldTime (the late ones
\* were returned and the sweep ran at NewTime), then u1's loan of b1 for d1 days
\* and, if any, u2's loan of b2 for d2 days, both taken at NewTime and still
\* borrowed.
RiskLedger(past, d1, second, d2) ==
    LET n == Len(past)
        Past(i) ==
            IF past[i] = "in time"
            THEN [BorrowRecord(i, "u1", "b1", OldTime,
                               OldTime + DefaultBorrowDays * DayLen)
                     EXCEPT !.returned_at = OldTime, !.status = "returned"]
            ELSE IF past[i] = "late"
            THEN [BorrowRecord(i, "u1", "b1", OldTime, OldTime)
                     EXCEPT !.returned_at = NewTime, !.status = "returned"]
            ELSE [BorrowRecord(i, "u1", "b1", OldTime, OldTime)
                     EXCEPT !.status = "overdue"]
    IN [i \in 1..(n + 1 + second) |->
           IF i <= n THEN Past(i)
           ELSE IF i = n + 1
           THEN BorrowRecord(i, "u1", "b1", NewTime, NewTime + d1 * DayLen)
           ELSE BorrowRecord(i, "u2", "b2", NewTime, NewTime + d2 * DayLen)]

\* the catalogue has b1 and, unless delete_book took it away after it was
\* lent, b2
InitRisk ==
    /\ \E S \in {{"b1"}, {"b1", "b2"}} :
       \E past \in UNION {[1..n -> PastKinds] : n \in 0..MaxPast} :
       \E d1 \in RiskDaysChoices, second \in 0..1 :
       \E d2 \in IF second = 1 THEN RiskDaysChoices ELSE {0} :
          LET ledger == RiskLedger(past, d1, second, d2)
              Held(b) == Cardinality({i \in 1..Len(ledger) :
                                        /\ ledger[i].book_id = b
                                        /\ ledger[i].status # "returned"})
              Kept(u) == LET Mine(r) == r.user_id = u /\ r.status # "returned"
                             mine == SelectSeq(ledger, Mine)
                         IN [i \in 1..Len(mine) |-> mine[i].id]
              Read(u) == LET Mine(r) == r.user_id = u /\ r.status = "returned"
                             mine == SelectSeq(ledger, Mine)
                         IN [i \in 1..Len(mine) |-> mine[i].book_id]
          IN /\ books = [b \in S |-> [total_copies |-> MaxPast + MaxCopies,
                                       available_copies |->
                                           MaxPast + MaxCopies - Held(b)]]
             /\ borrows = ledger
             /\ users = [u \in UserIds |-> [current_borrowings |-> Kept(u),
                                             reading_history |-> Read(u)]]
             /\ nextId = Len(ledger) + 1
    /\ now \in {NewTime, NewTime + 1}
    /\ pc = [p \in Procs |-> "idle"]
    /\ req = [p \in Procs |-> NoReq]
    /\ loc = [p \in Procs |-> NoLoc]
    /\ resp = [p \in Procs |-> NoResp]

NextRisk ==
    \/ \E u \in UserIds : OverdueRisk(1, u)
    \/ Reply(1)

SpecRisk == InitRisk /\ [][NextRisk]_vars

----------------------------------------------------------------------------
(* Catalogue and administration endpoints. Served one at a time, each is one *)
(* action: the role check, then its reads and its one write.                 *)

\* total_copies: Optional[int] = None, when the update does not name it
NoCopies == -1
\* total_copies of a new book, and of an update that names it
CreateCopiesChoices == 1..MaxCopies
UpdateCopiesChoices == 0..MaxCopies
\* db.users in the order of registration
UserOrder == <<"u1", "u2", "lib">>

\* the Book a handler returns: of it the model keeps the id and the counts
BookOf(bs, b) ==
    [book_id |-> b, total_copies |-> bs[b].total_copies,
     available_copies |-> bs[b].available_copies]

\* a request of the catalogue: the book's id and, for create and update,
\* total_copies
BookReq(op, u, b, n) ==
    [op |-> op, user |-> u, book_id |-> b, borrow_days |-> 0, borrow_id |-> 0,
     total_copies |-> n]

\* the id a new Book gets from uuid4 is one that no document mentions; the
\* catalogue's books are created in the order of their created_at
IsNewBookId(b) ==
    /\ b \notin DOMAIN books
    /\ \A i \in 1..Len(borrows) : borrows[i].book_id # b
    /\ \A c \in DOMAIN books : Catalog[c].created_at < Catalog[b].created_at

\* update_book writing available_copies along with total_copies, so that the
\* copies on loan stay the difference of the two
UpdateBookAdjusting(p, u, b, n) ==
    /\ pc[p] = "idle"
    /\ req' = [req EXCEPT ![p] = BookReq("update_book", u, b, n)]
    /\ IF Role(u) # "librarian"
       THEN /\ Finish(p, HTTPException(403, "Only librarians can update books"), NoLoc)
            /\ UNCHANGED books
       ELSE IF b \notin DOMAIN books
       THEN /\ Finish(p, HTTPException(404, "Book not found"), NoLoc)
            /\ UNCHANGED books
       ELSE LET updated ==
                    IF n = NoCopies THEN books
                    ELSE [books EXCEPT ![b].total_copies = n,
                                       ![b].available_copies =
                                           @ + n - books[b].total_copies]
            IN /\ books' = updated
               /\ Finish(p, Ok(NoRecord, 0, <<BookOf(updated, b)>>),
                         [NoLoc EXCEPT !.book = FindBook(books, b)])
    /\ UNCHANGED <<borrows, users, now, nextId>>

\* POST /books: a new book with all its copies in
CreateBook(p, u, b, n) ==
    /\ pc[p] = "idle"
    /\ IsNewBookId(b)
    /\ req' = [req EXCEPT ![p] = BookReq("create_book", u, b, n)]
    /\ IF Role(u) # "librarian"
       THEN /\ Finish(p, HTTPException(403, "Only librarians can add books"), NoLoc)
            /\ UNCHANGED books
       ELSE LET created == [c \in DOMAIN books \cup {b} |->
                               IF c = b THEN [total_copies |-> n,
                                              available_copies |-> n]
                               ELSE books[c]]
            IN /\ books' = created
               /\ Finish(p, Ok(NoRecord, 0, <<BookOf(created, b)>>), NoLoc)
    /\ UNCHANGED <<borrows, users, now, nextId>>

\* PUT /books/{book_id}: $set of the fields the request names. BookUpdate has
\* no available_copies; of its fields the model follows total_copies. The
\* handler's local book is the document as it was found
UpdateBook(p, u, b, n) ==
    /\ pc[p] = "idle"
    /\ req' = [req EXCEPT ![p] = BookReq("update_book", u, b, n)]
    /\ IF Role(u) # "librarian"
       THEN /\ Finish(p, HTTPException(403, "Only librarians can update books"), NoLoc)
            /\ UNCHANGED books
       ELSE IF b \notin DOMAIN books
       THEN /\ Finish(p, HTTPException(404, "Book not found"), NoLoc)
            /\ UNCHANGED books
       ELSE LET updated == IF n = NoCopies THEN books
                           ELSE [books EXCEPT ![b].total_copies = n]
            IN /\ books' = updated
               /\ Finish(p, Ok(NoRecord, 0, <<BookOf(updated, b)>>),
                         [NoLoc EXCEPT !.book = FindBook(books, b)])
    /\ UNCHANGED <<borrows, users, now, nextId>>

\* DELETE /books/{book_id}: delete_one, whatever loans the book has
DeleteBook(p, u, b) ==
    /\ pc[p] = "idle"
    /\ req' = [req EXCEPT ![p] = BookReq("delete_book", u, b, NoCopies)]
    /\ IF Role(u) # "librarian"
       THEN /\ Finish(p, HTTPException(403, "Only librarians can delete books"), NoLoc)
            /\ UNCHANGED books
       ELSE IF b \notin DOMAIN books
       THEN /\ Finish(p, HTTPException(404, "Book not found"), NoLoc)
            /\ UNCHANGED books
       ELSE /\ books' = [c \in DOMAIN books \ {b} |-> books[c]]
            /\ Finish(p, [Ok(NoRecord, 0, << >>)
                             EXCEPT !.detail = "Book deleted successfully"],
                      [NoLoc EXCEPT !.book = FindBook(books, b)])
    /\ UNCHANGED <<borrows, users, now, nextId>>

\* GET /users: the members
GetUsers(p, u) ==
    /\ pc[p] = "idle"
    /\ req' = [req EXCEPT ![p] = [op |-> "get_users", user |-> u, book_id |-> "",
                                  borrow_days |-> 0, borrow_id |-> 0]]
    /\ IF Role(u) # "librarian"
       THEN Finish(p, HTTPException(403, "Only librarians can view users"), NoLoc)
       ELSE LET IsMember(v) == v \in DOMAIN users /\ Role(v) = "member"
                members == SelectSeq(UserOrder, IsMember)
            IN Finish(p, Ok(NoRecord, 0,
                            [i \in 1..Len(members) |->
                                [user_id |-> members[i],
                                 current_borrowings |->
                                     users[members[i]].current_borrowings,
                                 reading_history |->
                                     users[members[i]].reading_history]]),
                      NoLoc)
    /\ UNCHANGED <<books, borrows, users, now, nextId>>

\* GET /dashboard/stats: four counts and the five latest loans
GetDashboardStats(p, u) ==
    /\ pc[p] = "idle"
    /\ req' = [req EXCEPT ![p] = [op |-> "dashboard", user |-> u, book_id |-> "",
                                  borrow_days |-> 0, borrow_id |-> 0]]
    /\ IF Role(u) # "librarian"
       THEN Finish(p, HTTPException(403, "Only librarians can view dashboard"), NoLoc)
       ELSE LET Count(status) ==
                    Cardinality({i \in 1..Len(borrows) : borrows[i].status = status})
                key == [i \in 1..Len(borrows) |-> borrows[i].borrowed_at]
            IN Finish(p, Ok(NoRecord, 0,
                            <<[total_books |-> Cardinality(DOMAIN books),
                               total_users |->
                                   Cardinality({v \in DOMAIN users :
                                                   Role(v) = "member"}),
                               active_borrows |-> Count("borrowed"),
                               overdue_books |-> Count("overdue"),
                               recent_activity |->
                                   Take(SortedDesc(borrows, key), RecentActivity)]>>),
                      NoLoc)
    /\ UNCHANGED <<books, borrows, users, now, nextId>>

\* no book yet
InitCatalog ==
    /\ books = << >>
    /\ borrows = << >>
    /\ users = [u \in UserIds |-> [current_borrowings |-> << >>,
                                   reading_history |-> << >>]]
    /\ now = 0
    /\ nextId = 1
    /\ pc = [p \in Procs |-> "idle"]
    /\ req = [p \in Procs |-> NoReq]
    /\ loc = [p \in Procs |-> NoLoc]
    /\ resp = [p \in Procs |-> NoResp]

\* most loans of the specification of the whole service
MaxCatalogLoans == 1
\* the callers of the administration endpoints: a member and the librarian
Callers == {"u1", "lib"}

(* The whole service, requests served one at a time *)
NextCatalog ==
    \/ \E u \in Callers, n \in CreateCopiesChoices : CreateBook(1, u, "b1", n)
    \/ \E u \in Callers, b \in BookIds, n \in UpdateCopiesChoices \cup {NoCopies} :
        UpdateBook(1, u, b, n)
    \/ \E u \in Callers, b \in BookIds : DeleteBook(1, u, b)
    \/ \E u \in Callers : GetUsers(1, u)
    \/ \E u \in Callers : GetDashboardStats(1, u)
    \/ \E u \in Members, b \in BookIds, d \in BorrowDaysChoices :
        CanAllocate(MaxCatalogLoans) /\ BorrowFindBook(1, u, b, d)
    \/ \E u \in Callers, id \in 1..MaxCatalogLoans : ReturnFind(1, u, id)
    \/ \E u \in Callers : SweepFind(1, u)
    \/ Recommend(1, "u1", DefaultLimit)
    \/ \E u \in Callers : ForecastDemand(1, u)
    \/ \E u \in Callers : OverdueRisk(1, u)
    \/ Continue(1)
    \/ Tick(MaxNow)

SpecCatalog == InitCatalog /\ [][NextCatalog]_vars


----------------------------------------------------------------------------
(* Properties *)

\* a loan that holds a copy
IsActive(r) == r.status \in {"borrowed", "overdue"}

\* positions in db.borrows of the active loans on book b
ActiveOn(b) ==
    {i \in 1..Len(borrows) : borrows[i].book_id = b /\ IsActive(borrows[i])}

\* handlers whose request is finished and not yet answered
Done(op) == {p \in Procs : pc[p] = "done" /\ req[p].op = op}

\* the loan document with that id (ids are unique in db.borrows)
Loan(id) == borrows[FirstWithId(borrows, id)]

\* C1: in every reachable state, whatever the interleaving of borrow, return and
\* sweep requests, every book has 0 <= available_copies <= total_copies.
C1_CopiesWithinBounds ==
    \A b \in DOMAIN books :
        /\ 0 <= books[b].available_copies
        /\ books[b].available_copies <= books[b].total_copies

\* C2: in every reachable state, also between the store calls of a request in
\* flight, available_copies of every book is total_copies minus the number of
\* its loans in status borrowed or overdue.
C2_CopiesMatchActiveLoans ==
    \A b \in DOMAIN books :
        books[b].available_copies = books[b].total_copies - Cardinality(ActiveOn(b))

\* C3: when N distinct users have each borrowed once, concurrently, a book that
\* had k < N available copies and no loans, exactly k of them succeeded and the
\* other N - k were refused with "Book not available".
C3_ExactlyKBorrowsSucceed ==
    \A b \in DOMAIN books :
        LET D == {p \in Done("borrow") : req[p].book_id = b}
            Won == {p \in D : resp[p].status = 200}
            k == books[b].total_copies
        IN ( /\ D = Procs
             /\ \A p, q \in D : p # q => req[p].user # req[q].user
             /\ k < Cardinality(D)
             /\ nextId - 1 = Cardinality(Won)
             /\ \A i \in 1..Len(borrows) :
                    /\ borrows[i].returned_at = NoTime
                    /\ \E p \in Won : resp[p].record.id = borrows[i].id )
           => /\ Cardinality(Won) = k
              /\ \A p \in D \ Won : resp[p].detail = "Book not available"

\* C4: in every reachable state every user has, on every book, at most one loan
\* in status borrowed or overdue.
C4_OneActiveLoanPerUserBook ==
    \A u \in UserIds, b \in BookIds :
        Cardinality({i \in ActiveOn(b) : borrows[i].user_id = u}) <= 1

\* handler p takes the step
Acts(p) == pc'[p] # pc[p] \/ loc'[p] # loc[p]

\* no request is between two of its store calls
Quiet == \A p \in Procs : pc[p] \in {"idle", "done"}

\* the return or sweep call that handler p serves, or starts with this step,
\* began when the loan with that id had already been returned: p is idle, or
\* what p read of that loan shows it returned
StartedAfterReturn(p, id) ==
    \/ pc[p] = "idle"
    \/ /\ req[p].op = "return"
       /\ loc[p].record.id = id => loc[p].record.returned_at # NoTime
    \/ /\ req[p].op = "overdue"
       /\ \A j \in 1..Len(loc[p].list) :
            loc[p].list[j].id = id => loc[p].list[j].returned_at # NoTime

\* C5: once a loan has been returned, no step of a return or sweep call that
\* started afterwards changes its status, returned_at or fine_amount.
C5_ReturnedIsTerminal ==
    [][\A p \in Procs : \A i \in 1..Len(borrows) :
          ( /\ borrows[i].returned_at # NoTime
            /\ Acts(p)
            /\ req'[p].op \in {"return", "overdue"}
            /\ StartedAfterReturn(p, borrows[i].id) )
          => /\ borrows'[i].status = borrows[i].status
             /\ borrows'[i].returned_at = borrows[i].returned_at
             /\ borrows'[i].fine_amount = borrows[i].fine_amount]_vars

\* C6: when a return has completed and no request is in flight any more, the
\* returned loan has status returned, also when a sweep that had selected the
\* loan ran concurrently with the return.
C6_ReturnWinsOverSweep ==
    \A p \in Done("return") :
        (resp[p].status = 200 /\ Quiet) => Loan(req[p].borrow_id).status = "returned"

\* C7: of two return requests for the same loan, both allowed to return it, one
\* that succeeds leaves the other to fail with "Book already returned", and the
\* copy is given back once: with that loan the only one of the ledger, the
\* book has all its copies when the requests are over.
C7_OneReturnSucceeds ==
    /\ \A p, q \in Done("return") :
          ( /\ p # q
            /\ req[p].borrow_id = req[q].borrow_id
            /\ resp[p].status = 200
            /\ resp[q].status \notin {403, 404} )
          => resp[q].detail = "Book already returned"
    /\ \A p \in Done("return") :
          (resp[p].status = 200 /\ Quiet /\ nextId = 2 /\ Len(borrows) = 1)
          => LET b == borrows[1].book_id
             IN books[b].available_copies = books[b].total_copies

\* full days by which ret exceeds due, 0 when it does not
FullDaysLate(due, ret) ==
    IF ret <= due THEN 0
    ELSE CHOOSE k \in 0..(ret - due) :
            k * DayLen <= ret - due /\ ret - due < (k + 1) * DayLen

\* C8: a successful return is fined the number of full days between due_date
\* and the return time, times 1, and nothing when it is not late, whatever the
\* status (borrowed or overdue) the return found: on time 0, part of a day 0,
\* one day 1, ten days 10.
C8_FineIsFullDaysLate ==
    \A p \in Done("return") :
        resp[p].status = 200 =>
            LET late == loc[p].at - loc[p].record.due_date
                fine == resp[p].fine_amount
            IN /\ fine = FullDaysLate(loc[p].record.due_date, loc[p].at) * FinePerDay
               /\ Loan(req[p].borrow_id).fine_amount = fine
               /\ Loan(req[p].borrow_id).returned_at = loc[p].at
               /\ late <= 0 => fine = 0
               /\ (0 < late /\ late < DayLen) => fine = 0
               /\ late = DayLen => fine = 1
               /\ late = 10 * DayLen => fine = 10

\* a loan never swept to overdue is returned ten days late and fined 10
C8_Witness ==
    \E p \in Done("return") :
        /\ resp[p].status = 200
        /\ loc[p].record.status = "borrowed"
        /\ loc[p].at = loc[p].record.due_date + 10 * DayLen
        /\ resp[p].fine_amount = 10

\* db.borrows without the loan a finished borrow has created: the ledger as the
\* borrow found it, when requests are served one at a time
Before(p) ==
    LET Other(r) == r.id # resp[p].record.id IN SelectSeq(borrows, Other)

\* C9: scenario A, requests served one at a time, on a book with one copy. A
\* borrow of the book without loans succeeds and leaves 0 copies; with that loan
\* borrowed, another user's borrow is refused with "Book not available" and
\* changes nothing; the borrower's return on time is fined 0 and leaves 1 copy;
\* with that loan returned, another user's borrow succeeds.
C9_ScenarioA ==
    /\ \A p \in Done("borrow") :
        LET b == req[p].book_id
            u == req[p].user
            before == Before(p)
        IN (b \in DOMAIN books /\ books[b].total_copies = 1) =>
            /\ before = << >> =>
                /\ resp[p].status = 200
                /\ borrows = <<resp[p].record>>
                /\ borrows[1].user_id = u /\ borrows[1].status = "borrowed"
                /\ books[b].available_copies = 0
            /\ ( /\ Len(before) = 1
                 /\ before[1].book_id = b
                 /\ before[1].status = "borrowed"
                 /\ before[1].user_id # u ) =>
                /\ resp[p] = HTTPException(400, "Book not available")
                /\ borrows = before
                /\ books[b].available_copies = 0
                /\ users[u].current_borrowings = << >>
                /\ users[before[1].user_id].current_borrowings = <<before[1].id>>
            /\ ( /\ Len(before) = 1
                 /\ before[1].book_id = b
                 /\ before[1].status = "returned"
                 /\ before[1].user_id # u ) =>
                /\ resp[p].status = 200
                /\ borrows = Append(before, resp[p].record)
                /\ borrows[2].user_id = u /\ borrows[2].status = "borrowed"
                /\ books[b].available_copies = 0
    /\ \A p \in Done("return") :
        LET r == loc[p].record
        IN ( /\ Len(borrows) = 1
             /\ r.status = "borrowed"
             /\ r.user_id = req[p].user
             /\ books[r.book_id].total_copies = 1
             /\ loc[p].at <= r.due_date ) =>
            /\ resp[p].status = 200
            /\ resp[p].fine_amount = 0
            /\ borrows[1].status = "returned" /\ borrows[1].fine_amount = 0
            /\ books[r.book_id].available_copies = 1

\* the last step of scenario A: the second user's borrow has succeeded after
\* the first user's loan of the only copy was returned without a fine
C9_Witness ==
    \E p \in Done("borrow") :
        /\ req[p].book_id \in DOMAIN books
        /\ books[req[p].book_id].total_copies = 1
        /\ resp[p].status = 200
        /\ Len(borrows) = 2
        /\ borrows[1].status = "returned" /\ borrows[1].fine_amount = 0
        /\ borrows[1].user_id # req[p].user
        /\ borrows[2].id = resp[p].record.id
        /\ books[req[p].book_id].available_copies = 0

\* C10: scenario B, one loan with due_date T, requests served one at a time. A
\* sweep at T + 3 days leaves the loan overdue and the book's copies as they
\* were; a return at T + 5 days of the loan found overdue succeeds, sets it
\* returned with fine_amount 5 and gives the copy back.
C10_ScenarioB ==
    /\ \A p \in Done("overdue") :
        ( /\ Role(req[p].user) = "librarian"
          /\ Len(borrows) = 1
          /\ borrows[1].returned_at = NoTime
          /\ loc[p].at = borrows[1].due_date + 3 * DayLen ) =>
            LET b == borrows[1].book_id
            IN /\ resp[p].status = 200
               /\ borrows[1].status = "overdue"
               /\ borrows[1].fine_amount = 0
               /\ \/ resp[p].list = <<[borrows[1] EXCEPT !.status = "borrowed"]>>
                  \/ resp[p].list = << >>
               /\ books[b].available_copies = books[b].total_copies - 1
    /\ \A p \in Done("return") :
        LET r == loc[p].record
        IN ( /\ r.status = "overdue"
             /\ r.user_id = req[p].user \/ Role(req[p].user) = "librarian"
             /\ loc[p].at \in {NoTime, r.due_date + 5 * DayLen} ) =>
            /\ resp[p].status = 200
            /\ resp[p].fine_amount = 5
            /\ Loan(r.id) = [r EXCEPT !.status = "returned", !.fine_amount = 5,
                                      !.returned_at = r.due_date + 5 * DayLen]
            /\ books[r.book_id].available_copies = books[r.book_id].total_copies

\* the loan, found overdue, has been returned five days after its due date
C10_Witness ==
    \E p \in Done("return") :
        /\ loc[p].record.status = "overdue"
        /\ loc[p].at = loc[p].record.due_date + 5 * DayLen
        /\ resp[p].status = 200
        /\ resp[p].fine_amount = 5
        /\ Loan(req[p].borrow_id).status = "returned"

\* C11: requests served one at a time, a borrow by a user who holds a loan on
\* that book in status borrowed or overdue is refused with "You already have
\* this book borrowed", creates no loan and leaves the book's available_copies
\* as the borrow found it and the loan the only entry the user holds for it.
C11_AlreadyBorrowedRefused ==
    \A p \in Done("borrow") :
        LET u == req[p].user
            b == req[p].book_id
            before == Before(p)
            held == {i \in 1..Len(before) :
                        /\ before[i].user_id = u
                        /\ before[i].book_id = b
                        /\ before[i].status \in {"borrowed", "overdue"}}
        IN held # {} =>
            /\ resp[p] = HTTPException(400, "You already have this book borrowed")
            /\ borrows = before
            /\ books[b].available_copies = loc[p].book.available_copies
            /\ \A i \in 1..Len(users[u].current_borrowings) :
                    \E j \in 1..Len(before) :
                        before[j].id = users[u].current_borrowings[i]

\* C12: a borrow of a book id that is not in the catalogue ends at once with
\* 404 "Book not found", and a borrow of a book with available_copies 0 ends at
\* once with 400 "Book not available"; the request makes no other step, so no
\* loan is created and no book or user document changes.
C12_NotFoundOrExhausted ==
    [][\A p \in Procs :
          (pc[p] = "idle" /\ req'[p].op = "borrow") =>
              LET b == req'[p].book_id
              IN /\ b \notin DOMAIN books =>
                      /\ resp'[p] = HTTPException(404, "Book not found")
                      /\ pc'[p] = "done"
                      /\ UNCHANGED <<books, borrows, users, nextId>>
                 /\ (b \in DOMAIN books /\ books[b].available_copies = 0) =>
                      /\ resp'[p] = HTTPException(400, "Book not available")
                      /\ pc'[p] = "done"
                      /\ UNCHANGED <<books, borrows, users, nextId>>]_vars

\* a borrow has been refused for want of a copy: the only copy is out on
\* another user's loan, and the refused user holds nothing
C12_Witness ==
    \E p \in Done("borrow") :
        /\ resp[p] = HTTPException(400, "Book not available")
        /\ books[req[p].book_id].available_copies = 0
        /\ Len(borrows) = 1
        /\ borrows[1].user_id # req[p].user
        /\ users[req[p].user].current_borrowings = << >>

\* C13: a return asked by an actor who is neither the loan's user nor a
\* librarian ends at once with 403 and changes no loan, book or user document;
\* a librarian's return of another user's loan that is not yet returned
\* succeeds and sets the loan returned.
C13_ForbiddenReturn ==
    /\ [][\A p \in Procs :
            (pc[p] = "idle" /\ req'[p].op = "return") =>
                LET i == FirstWithId(borrows, req'[p].borrow_id)
                    actor == req'[p].user
                IN (i # 0 /\ borrows[i].user_id # actor /\ actor \notin Librarians) =>
                      /\ resp'[p] = HTTPException(403, "Not authorized to return this book")
                      /\ pc'[p] = "done"
                      /\ UNCHANGED <<books, borrows, users>>]_vars
    /\ [](\A p \in Done("return") :
            LET r == loc[p].record
            IN ( /\ req[p].user \in Librarians
                 /\ r.id # 0
                 /\ r.user_id # req[p].user
                 /\ r.status # "returned" ) =>
                  /\ resp[p].status = 200
                  /\ Loan(r.id).status = "returned"
                  /\ Loan(r.id).returned_at = loc[p].at)

\* a member has been refused the return of another member's loan, which is
\* still out
C13_Witness ==
    \E p \in Done("return") :
        /\ resp[p] = HTTPException(403, "Not authorized to return this book")
        /\ req[p].user \in Members
        /\ loc[p].record.user_id \in Members \ {req[p].user}
        /\ Loan(req[p].borrow_id).status = "borrowed"
        /\ Loan(req[p].borrow_id).returned_at = NoTime

\* positions in db.borrows of the loans on book b
LoansOn(b) == {i \in 1..Len(borrows) : borrows[i].book_id = b}

\* C14: requests served one at a time, a return of a loan in status returned,
\* asked by its user or a librarian, ends at once with 400 "Book already
\* returned" and changes no loan, book or user document; so each loan gives
\* its copy back at most once: between requests, available_copies of a book
\* is total_copies less its loans plus those of them that are returned.
C14_AlreadyReturnedRefused ==
    /\ [][\A p \in Procs :
            (pc[p] = "idle" /\ req'[p].op = "return") =>
                LET i == FirstWithId(borrows, req'[p].borrow_id)
                    actor == req'[p].user
                IN ( /\ i # 0
                     /\ borrows[i].user_id = actor \/ actor \in Librarians
                     /\ borrows[i].status = "returned" ) =>
                      /\ resp'[p] = HTTPException(400, "Book already returned")
                      /\ pc'[p] = "done"
                      /\ UNCHANGED <<books, borrows, users>>]_vars
    /\ [](Quiet =>
            \A b \in DOMAIN books :
                books[b].available_copies =
                    books[b].total_copies - Cardinality(LoansOn(b))
                    + Cardinality({i \in LoansOn(b) : borrows[i].returned_at # NoTime}))

\* the second return of a loan has been refused, and the book has all its
\* copies, the loan's copy counted once
C14_Witness ==
    \E p \in Done("return") :
        /\ resp[p] = HTTPException(400, "Book already returned")
        /\ loc[p].record.returned_at # NoTime
        /\ Len(borrows) = 1
        /\ books[borrows[1].book_id].available_copies
              = books[borrows[1].book_id].total_copies

\* C15: a borrow whose insert of the loan record fails, after available_copies
\* was decremented, leaves available_copies as the borrow found it, no loan
\* with the record's id and no entry for it in the user's current_borrowings.
C15_FailedBorrowUndone ==
    \A p \in Done("borrow") :
        resp[p].status = 500 =>
            LET id == loc[p].record.id
                u == req[p].user
                b == req[p].book_id
            IN /\ books[b].available_copies = loc[p].book.available_copies
               /\ FirstWithId(borrows, id) = 0
               /\ \A i \in 1..Len(users[u].current_borrowings) :
                      users[u].current_borrowings[i] # id

\* the ids of the loans in a list of loan documents
IdsOf(list) == {list[j].id : j \in 1..Len(list)}

\* C16: a librarian's sweep reads the clock once, selects exactly the loans
\* that are then in status borrowed with due_date before that time, sets each
\* of them, once, to overdue and reports exactly the selected loans; its steps
\* change nothing else: no other loan, no other field, no book and no user
\* document. Loans that are at that time not yet due, overdue or returned are
\* not selected and so not changed by the sweep.
C16_SweepExact ==
    /\ [][\A p \in Procs :
            /\ ( /\ pc[p] = "idle"
                 /\ req'[p].op = "overdue"
                 /\ req'[p].user \in Librarians ) =>
                  LET Due(r) == r.status = "borrowed" /\ r.due_date < now
                      selected == SelectSeq(borrows, Due)
                  IN /\ loc'[p].list = selected
                     /\ loc'[p].at = now
                     /\ UNCHANGED <<books, borrows, users>>
                     /\ IF selected = << >>
                        THEN pc'[p] = "done" /\ resp'[p] = Ok(NoRecord, 0, << >>)
                        ELSE pc'[p] = "s_update" /\ loc'[p].i = 1
            /\ (pc[p] = "s_update" /\ Acts(p)) =>
                  LET selected == loc[p].list
                      k == FirstWithId(borrows, selected[loc[p].i].id)
                  IN /\ borrows' = [borrows EXCEPT ![k].status = "overdue"]
                     /\ UNCHANGED <<books, users>>
                     /\ loc'[p].list = selected
                     /\ IF loc[p].i = Len(selected)
                        THEN pc'[p] = "done" /\ resp'[p] = Ok(NoRecord, 0, selected)
                        ELSE pc'[p] = "s_update" /\ loc'[p].i = loc[p].i + 1]_vars
    /\ [](\A p \in Procs :
            req[p].op = "overdue" =>
                /\ Cardinality(IdsOf(loc[p].list)) = Len(loc[p].list)
                /\ pc[p] = "s_update" => loc[p].i \in 1..Len(loc[p].list))

\* a sweep has set one loan overdue and reported it, and left alone a loan
\* that is not yet due
C16_Witness ==
    \E p \in Done("overdue") :
        /\ Len(resp[p].list) = 1
        /\ Len(borrows) = 2
        /\ \E i, k \in 1..2 :
              /\ borrows[i].id = resp[p].list[1].id
              /\ borrows[i].status = "overdue"
              /\ borrows[k].status = "borrowed"
              /\ borrows[k].due_date >= loc[p].at

\* C17: requests served one at a time. When a librarian's sweep has completed,
\* no loan is left in status borrowed with due_date before the sweep's time;
\* a sweep that starts when no loan is in status borrowed and past due (as
\* right after a completed sweep, no loan having come due) ends at once with
\* an empty report and changes nothing; and no step of a sweep changes a loan
\* that is in status overdue.
C17_SweepIdempotent ==
    /\ [](\A p \in Done("overdue") :
            req[p].user \in Librarians =>
                \A i \in 1..Len(borrows) :
                    ~(borrows[i].status = "borrowed" /\ borrows[i].due_date < loc[p].at))
    /\ [][\A p \in Procs :
            (Acts(p) /\ req'[p].op = "overdue") =>
                /\ ( /\ pc[p] = "idle"
                     /\ \A i \in 1..Len(borrows) :
                          ~(borrows[i].status = "borrowed" /\ borrows[i].due_date < now) ) =>
                      /\ pc'[p] = "done"
                      /\ req'[p].user \in Librarians => resp'[p] = Ok(NoRecord, 0, << >>)
                      /\ UNCHANGED <<books, borrows, users>>
                /\ Len(borrows') = Len(borrows)
                /\ \A i \in 1..Len(borrows) :
                      borrows[i].status = "overdue" => borrows'[i] = borrows[i]]_vars

\* a sweep run after the sweep that set the loan overdue has reported nothing
\* and left the loan, still past due, as it was
C17_Witness ==
    \E p \in Done("overdue") :
        /\ req[p].user \in Librarians
        /\ resp[p] = Ok(NoRecord, 0, << >>)
        /\ \E i \in 1..Len(borrows) :
              /\ borrows[i].status = "overdue"
              /\ borrows[i].due_date < loc[p].at
              /\ borrows[i].returned_at = NoTime

\* C18: in every step, whatever the interleaving, no loan document is removed
\* from db.borrows and none changes its id, user_id, book_id, borrowed_at or
\* due_date; a document is added only by a borrow, one at a time, with a fresh
\* id, as the record the borrow answers with: a return or a sweep adds none.
C18_LoansOnlyGrow ==
    [][/\ Len(borrows') >= Len(borrows)
       /\ \A i \in 1..Len(borrows) :
             /\ borrows'[i].id = borrows[i].id
             /\ borrows'[i].user_id = borrows[i].user_id
             /\ borrows'[i].book_id = borrows[i].book_id
             /\ borrows'[i].borrowed_at = borrows[i].borrowed_at
             /\ borrows'[i].due_date = borrows[i].due_date
       /\ Len(borrows') > Len(borrows) =>
             /\ Len(borrows') = Len(borrows) + 1
             /\ borrows'[Len(borrows')].id \notin IdsOf(borrows)
             /\ \E p \in Procs :
                   /\ Acts(p)
                   /\ req[p].op = "borrow"
                   /\ resp'[p] = Ok(borrows'[Len(borrows')], 0, << >>)]_vars

\* two loans are on record, one returned and one set overdue by a sweep, each
\* still with the user, book and dates it was created with
C18_Witness ==
    /\ Len(borrows) = 2
    /\ \E i, k \in 1..2 :
          /\ borrows[i].status = "returned"
          /\ borrows[k].status = "overdue"
    /\ \A i \in 1..2 :
          /\ borrows[i].user_id \in Members
          /\ borrows[i].book_id = "b1"
          /\ borrows[i].due_date = borrows[i].borrowed_at

\* the scoring operations
ScoringOps == {"recommend", "forecast", "risk"}

\* C19: a recommend, forecastDemand or overdueRisk request, made in any state
\* of the ledger, changes no book, loan or user document: available_copies,
\* status, returned_at, fine_amount, reading_history and current_borrowings
\* are after the request what they were before.
C19_ScoringReadOnly ==
    [][\A p \in Procs :
          (Acts(p) /\ req'[p].op \in ScoringOps) =>
              /\ pc[p] = "idle" /\ pc'[p] = "done"
              /\ \A b \in DOMAIN books :
                    /\ b \in DOMAIN books'
                    /\ books'[b].available_copies = books[b].available_copies
                    /\ books'[b].total_copies = books[b].total_copies
              /\ borrows' = borrows
              /\ \A u \in DOMAIN users :
                    /\ users'[u].reading_history = users[u].reading_history
                    /\ users'[u].current_borrowings = users[u].current_borrowings]_vars

\* recommendations have been computed from the history of a user who has
\* returned a loan: the loan, the book and the history are on record
C19_Witness ==
    \E p \in Done("recommend") :
        /\ resp[p].status = 200
        /\ resp[p].list # << >>
        /\ users[req[p].user].reading_history # << >>
        /\ Len(borrows) = 1
        /\ borrows[1].status = "returned"
        /\ borrows[1].returned_at # NoTime
        /\ books[borrows[1].book_id].available_copies = MaxCopies

\* C20: for a user whose reading history is empty, recommend(user, limit)
\* returns min(limit, number of catalogue books) distinct books, each with
\* similarity_score 0.5 and reason "Popular book", and every book it leaves
\* out was catalogued before every book it returns.
C20_PopularForEmptyHistory ==
    \A p \in Done("recommend") :
        ( /\ req[p].user \in DOMAIN users
          /\ users[req[p].user].reading_history = << >> ) =>
            LET list == resp[p].list
                n == Cardinality(DOMAIN books)
                ids == {list[j].book_id : j \in 1..Len(list)}
            IN /\ resp[p].status = 200
               /\ Len(list) = IF req[p].limit < n THEN req[p].limit ELSE n
               /\ Cardinality(ids) = Len(list)
               /\ ids \subseteq DOMAIN books
               /\ \A j \in 1..Len(list) :
                     /\ list[j].similarity_score = 5
                     /\ list[j].reason = <<[kind |-> "Popular book", of |-> {}]>>
               /\ \A b \in DOMAIN books \ ids : \A c \in ids :
                     Catalog[b].created_at < Catalog[c].created_at

\* with three books catalogued and a limit of at least 3, a user without
\* history has been recommended the three of them
C20_Witness ==
    \E p \in Done("recommend") :
        /\ resp[p].status = 200
        /\ users[req[p].user].reading_history = << >>
        /\ DOMAIN books = ScoreBookIds
        /\ req[p].limit >= 3
        /\ Len(resp[p].list) = 3
        /\ {resp[p].list[j].book_id : j \in 1..3} = ScoreBookIds
        /\ \A j \in 1..3 : resp[p].list[j].similarity_score = PopularScore

\* C21: for a user with a non-empty reading history H the recommendations are
\* the catalogue's books outside H whose score is positive, the score being 0.5
\* (5 tenths) when the book's genre is the genre of a book of H plus 0.2 (2
\* tenths) for every tag it shares with the books of H; they stand by
\* decreasing score, equal scores in the order of the catalogue, and only the
\* first `limit` of them are returned.
C21_SimilarUnread ==
    \A p \in Done("recommend") :
        (resp[p].status = 200 /\ users[req[p].user].reading_history # << >>) =>
            LET H == Range(users[req[p].user].reading_history)
                list == resp[p].list
                Score(b) ==
                    (IF \E h \in H : Catalog[h].genre = Catalog[b].genre
                     THEN GenreScore ELSE 0)
                    + TagScore * Cardinality({t \in Catalog[b].tags :
                                                \E h \in H : t \in Catalog[h].tags})
                Eligible == {b \in DOMAIN books \ H : Score(b) > 0}
                Ahead(a, b) ==
                    \/ Score(a) > Score(b)
                    \/ Score(a) = Score(b)
                       /\ Catalog[a].created_at < Catalog[b].created_at
                Listed == {list[j].book_id : j \in 1..Len(list)}
            IN /\ Len(list) = IF Cardinality(Eligible) < req[p].limit
                              THEN Cardinality(Eligible) ELSE req[p].limit
               /\ \A j \in 1..Len(list) :
                     /\ list[j].book_id \in Eligible
                     /\ list[j].similarity_score = Score(list[j].book_id)
               /\ \A j, k \in 1..Len(list) :
                     j < k => Ahead(list[j].book_id, list[k].book_id)
               /\ \A b \in Eligible \ Listed : \A a \in Listed : Ahead(a, b)

\* a reader of b1 and b3 was recommended b4 and b2, which both score 0.7 for
\* their genre and one shared tag, the older b4 first, and not b1 or b3
C21_Witness ==
    \E p \in Done("recommend") :
        /\ resp[p].status = 200
        /\ Range(users[req[p].user].reading_history) = {"b1", "b3"}
        /\ DOMAIN books = RecBookIds
        /\ Len(resp[p].list) = 2
        /\ resp[p].list[1].book_id = "b4"
        /\ resp[p].list[2].book_id = "b2"
        /\ resp[p].list[1].similarity_score = GenreScore + TagScore
        /\ resp[p].list[2].similarity_score = GenreScore + TagScore

\* C22: the demand forecast gives every book a predicted_demand of twice its
\* recent loans and a confidence of min(0.9, 0.5 + 0.1 * recent) (in tenths),
\* where the recent loans are the loans of the book, of any status, taken in
\* the last 30 days; the forecasts stand by decreasing predicted_demand, equal
\* ones in the order of the catalogue, and only the first 20 are returned.
C22_ForecastFromRecentLoans ==
    \A p \in Done("forecast") :
        resp[p].status = 200 =>
            LET list == resp[p].list
                Recent(b) ==
                    Cardinality({i \in 1..Len(borrows) :
                                    /\ borrows[i].book_id = b
                                    /\ now - borrows[i].borrowed_at
                                           <= ForecastDays * DayLen})
                Ahead(a, b) ==
                    \/ Recent(a) > Recent(b)
                    \/ Recent(a) = Recent(b)
                       /\ Catalog[a].created_at < Catalog[b].created_at
                Listed == {list[j].book_id : j \in 1..Len(list)}
            IN /\ Len(list) = IF Cardinality(DOMAIN books) < ForecastLimit
                              THEN Cardinality(DOMAIN books) ELSE ForecastLimit
               /\ \A j \in 1..Len(list) :
                     /\ list[j].book_id \in DOMAIN books
                     /\ list[j].predicted_demand = 2 * Recent(list[j].book_id)
                     /\ list[j].confidence =
                           IF 5 + Recent(list[j].book_id) < 9
                           THEN 5 + Recent(list[j].book_id) ELSE 9
               /\ \A j, k \in 1..Len(list) :
                     j < k => Ahead(list[j].book_id, list[k].book_id)
               /\ \A b \in DOMAIN books \ Listed : \A a \in Listed : Ahead(a, b)

\* a forecast over more than 20 books, of which 20 are returned: b1 comes first
\* with a demand of 10 for its five recent loans and the confidence held at
\* 0.9, while a sixth loan of b1, older than 30 days, is not counted
C22_Witness ==
    \E p \in Done("forecast") :
        /\ resp[p].status = 200
        /\ Cardinality(DOMAIN books) > ForecastLimit
        /\ Len(resp[p].list) = ForecastLimit
        /\ resp[p].list[1].book_id = "b1"
        /\ resp[p].list[1].predicted_demand = 10
        /\ resp[p].list[1].confidence = ConfidenceMax
        /\ Cardinality({i \in 1..Len(borrows) : borrows[i].book_id = "b1"}) = 6
        /\ \E i \in 1..Len(borrows) :
              /\ borrows[i].status = "overdue"
              /\ now - borrows[i].borrowed_at > ForecastDays * DayLen

\* the loans of a user that were ever overdue: in status overdue, or returned
\* after their due date
LateLoans(u) ==
    {i \in 1..Len(borrows) :
        /\ borrows[i].user_id = u
        /\ \/ borrows[i].status = "overdue"
           \/ borrows[i].status = "returned"
              /\ borrows[i].returned_at > borrows[i].due_date}

\* all loans of a user, counted as at least one
TotalLoans(u) ==
    LET total == Cardinality({i \in 1..Len(borrows) : borrows[i].user_id = u})
    IN IF total > 1 THEN total ELSE 1

\* x is the value, in hundredths and rounded down, of
\* (base + factor * overdue_rate) for the user u
IsRateValue(x, base, factor, u) ==
    LET exact == base * TotalLoans(u) + factor * Cardinality(LateLoans(u))
    IN x * TotalLoans(u) <= exact /\ exact < (x + 1) * TotalLoans(u)

\* C23: the overdue predictions report exactly the loans in status borrowed;
\* the probability of a loan is 0.95 when its due date is less than a day
\* ahead, 0.7 + 0.2 * overdue_rate when it is 1 or 2 whole days ahead, 0.4 +
\* 0.3 * overdue_rate when it is 3 to 5 days ahead and overdue_rate beyond; the
\* label is High from 0.7, Medium from 0.4 and Low below; the predictions
\* stand by decreasing probability.
C23_RiskOfBorrowedLoans ==
    \A p \in Done("risk") :
        resp[p].status = 200 =>
            LET list == resp[p].list
                Borrowed == {borrows[i].id : i \in {j \in 1..Len(borrows) :
                                                     borrows[j].status = "borrowed"}}
            IN /\ {list[j].borrow_id : j \in 1..Len(list)} = Borrowed
               /\ Len(list) = Cardinality(Borrowed)
               /\ \A j \in 1..Len(list) :
                     LET r == Loan(list[j].borrow_id)
                         days_until_due == (r.due_date - now) \div DayLen
                         x == list[j].probability
                     IN /\ days_until_due <= 0 => x = 95
                        /\ days_until_due \in 1..2 =>
                              IsRateValue(x, 70, 20, r.user_id)
                        /\ days_until_due \in 3..5 =>
                              IsRateValue(x, 40, 30, r.user_id)
                        /\ days_until_due > 5 => IsRateValue(x, 0, 100, r.user_id)
                        /\ list[j].risk_level =
                              IF x >= 70 THEN "High"
                              ELSE IF x >= 40 THEN "Medium" ELSE "Low"
               /\ \A j, k \in 1..Len(list) :
                     j < k => list[j].probability >= list[k].probability

\* C24: overdue_rate is the share of the user's loans that are overdue or were
\* returned after their due date, so that a user with such a loan has a
\* positive rate; the probability of a loan due in more than 5 days is that
\* rate.
C24_RateCountsLateLoans ==
    \A p \in Done("risk") :
        resp[p].status = 200 =>
            \A j \in 1..Len(resp[p].list) :
                LET r == Loan(resp[p].list[j].borrow_id)
                    x == resp[p].list[j].probability
                IN (r.due_date - now) \div DayLen > DaysNear
                   => /\ IsRateValue(x, 0, 100, r.user_id)
                      /\ LateLoans(r.user_id) # {} => x > 0

\* C27: borrow looks for the caller's active loan of the book before it looks
\* at the copies: a caller who holds an active loan of a book with no copy left
\* is refused with "already borrowed", not with "not available".
C27_DuplicateBeforeExhausted ==
    \A p \in Done("borrow") :
        (/\ loc[p].book.found
         /\ loc[p].book.available_copies = 0
         /\ \E i \in 1..Len(borrows) :
               /\ borrows[i].user_id = req[p].user
               /\ borrows[i].book_id = req[p].book_id
               /\ IsActive(borrows[i]))
        => /\ resp[p].status = 400
           /\ resp[p].detail = "You already have this book borrowed"

\* C30: when requests are served one after the other and none is in flight,
\* every book has 0 <= available_copies <= total_copies and available_copies =
\* total_copies - (its loans in status borrowed or overdue), after any run of
\* borrows, returns and sweeps, accepted or refused, on books that were created
\* with all copies in.
C30_QuietLedgerCounts ==
    Quiet =>
        \A b \in DOMAIN books :
            /\ 0 <= books[b].available_copies
            /\ books[b].available_copies <= books[b].total_copies
            /\ books[b].available_copies =
                  books[b].total_copies
                  - Cardinality({i \in 1..Len(borrows) :
                                    /\ borrows[i].book_id = b
                                    /\ borrows[i].status \in {"borrowed", "overdue"}})

\* no request in flight, after a loan was swept overdue and another returned:
\* one copy is out
C30_Witness ==
    /\ Quiet
    /\ \E i, j \in 1..Len(borrows) :
          /\ borrows[i].status = "overdue"
          /\ borrows[j].status = "returned"
          /\ borrows[i].book_id = borrows[j].book_id
          /\ books[borrows[i].book_id].available_copies
                = books[borrows[i].book_id].total_copies - 1

\* C26: an accepted borrow creates exactly one loan: its id is new, its user is
\* the caller, its status is borrowed, returned_at is unset, the fine is 0 and
\* due_date is the time of the borrow plus borrow_days days (14 when the
\* request names none); it takes exactly one copy of that book out of
\* available_copies and leaves every other book and every other loan as they
\* were.
C26_BorrowEffects ==
    /\ [](\A p \in Done("borrow") :
            resp[p].status = 200 =>
                LET r == resp[p].record
                    b == req[p].book_id
                IN /\ r.id \notin IdsOf(Before(p))
                   /\ borrows = Append(Before(p), r)
                   /\ r.user_id = req[p].user
                   /\ r.book_id = b
                   /\ r.status = "borrowed"
                   /\ r.returned_at = NoTime
                   /\ r.fine_amount = 0
                   /\ r.borrowed_at <= now
                   /\ r.due_date = r.borrowed_at + req[p].borrow_days * DayLen
                   /\ books[b].available_copies = loc[p].book.available_copies - 1
                   /\ books[b].total_copies = loc[p].book.total_copies)
    /\ [][\A p \in Procs :
            (Acts(p) /\ req'[p].op = "borrow") =>
                /\ DOMAIN books' = DOMAIN books
                /\ \A c \in DOMAIN books \ {req'[p].book_id} : books'[c] = books[c]
                /\ books'[req'[p].book_id].available_copies
                      \in {books[req'[p].book_id].available_copies,
                           books[req'[p].book_id].available_copies - 1}
                /\ Len(borrows') \in {Len(borrows), Len(borrows) + 1}
                /\ \A i \in 1..Len(borrows) : borrows'[i] = borrows[i]]_vars

\* a borrow for the default 14 days was accepted while another book was on
\* loan: the ledger has the old loan and the new one, and the other book still
\* has one copy out
C26_Witness ==
    \E p \in Done("borrow") :
        /\ resp[p].status = 200
        /\ req[p].borrow_days = DefaultBorrowDays
        /\ Len(borrows) = 2
        /\ borrows[1].book_id # req[p].book_id
        /\ borrows[1].status = "borrowed"
        /\ books[borrows[1].book_id].available_copies
              = books[borrows[1].book_id].total_copies - 1
        /\ books[req[p].book_id].available_copies
              = books[req[p].book_id].total_copies - 1

\* the operations that only a librarian may call
LibrarianOps ==
    {"create_book", "update_book", "delete_book", "get_users", "overdue",
     "forecast", "risk", "dashboard"}

\* C25: a member who calls a librarian-only operation (create, update or delete
\* a book, list the users, the overdue sweep, the demand forecast, the overdue
\* predictions, the dashboard) is answered 403 at once and no book, loan or
\* user document changes; in particular a member's call to the overdue
\* endpoint sets no loan overdue.
C25_MembersRefused ==
    /\ [][\A p \in Procs :
            ( /\ pc[p] = "idle"
              /\ req'[p].op \in LibrarianOps
              /\ req'[p].user \in Members ) =>
                /\ pc'[p] = "done"
                /\ resp'[p].status = 403
                /\ UNCHANGED <<books, borrows, users>>]_vars
    /\ [](\A p \in Procs :
            (req[p].op \in LibrarianOps /\ req[p].user \in Members) =>
                pc[p] = "done" /\ resp[p].status = 403)

\* a member's call to the overdue endpoint was refused while a loan was
\* borrowed and past due: the loan is still borrowed
C25_Witness ==
    \E p \in Done("overdue") :
        /\ req[p].user \in Members
        /\ resp[p].status = 403
        /\ \E i \in 1..Len(borrows) :
              borrows[i].status = "borrowed" /\ borrows[i].due_date < now

\* C28: available_copies of a book changes only in an accepted borrow (by the
\* step that takes the copy) and in an accepted return (by the step that
\* gives it back): the sweep, update_book (also when it sets total_copies),
\* the scoring operations and every refused borrow or return leave it as it
\* was.
C28_OnlyBorrowAndReturnMoveCopies ==
    /\ [][\A b \in DOMAIN books \cap DOMAIN books' :
            books'[b].available_copies # books[b].available_copies =>
                \E p \in Procs :
                    /\ req[p].book_id = b \/ loc[p].record.book_id = b
                    /\ \/ req[p].op = "borrow" /\ pc[p] = "b_dec"
                          /\ books'[b].available_copies = books[b].available_copies - 1
                       \/ req[p].op = "return" /\ pc[p] = "r_inc"
                          /\ books'[b].available_copies = books[b].available_copies + 1]_vars
    /\ [][\A p \in Procs :
            (Acts(p) /\ pc'[p] = "done" /\ resp'[p].status # 200) =>
                /\ pc[p] \in {"idle", "b_existing"}
                /\ UNCHANGED books]_vars

\* update_book has set total_copies of a book with a copy on loan to another
\* number, and available_copies is what it was
C28_Witness ==
    \E p \in Done("update_book") :
        /\ resp[p].status = 200
        /\ req[p].book_id \in DOMAIN books
        /\ books[req[p].book_id].total_copies # loc[p].book.total_copies
        /\ books[req[p].book_id].available_copies = loc[p].book.available_copies
        /\ \E i \in 1..Len(borrows) :
              borrows[i].book_id = req[p].book_id /\ IsActive(borrows[i])

\* C29: the availability invariants survive an update of the catalogue: after
\* update_book has set total_copies, with or without active loans of the
\* book, 0 <= available_copies <= total_copies and available_copies =
\* total_copies - (active loans) still hold.
C29_UpdateKeepsCounts ==
    \A p \in Done("update_book") :
        (resp[p].status = 200 /\ req[p].book_id \in DOMAIN books) =>
            LET b == req[p].book_id
            IN /\ 0 <= books[b].available_copies
               /\ books[b].available_copies <= books[b].total_copies
               /\ books[b].available_copies =
                     books[b].total_copies
                     - Cardinality({i \in 1..Len(borrows) :
                                       borrows[i].book_id = b /\ IsActive(borrows[i])})

\* C31: in every reachable state a loan has returned_at set exactly when its
\* status is returned, its fine_amount is not negative, and the fine_amount of
\* a loan in status borrowed or overdue is 0.
C31_ReturnedAtWithStatus ==
    \A i \in 1..Len(borrows) :
        /\ borrows[i].returned_at # NoTime <=> borrows[i].status = "returned"
        /\ borrows[i].fine_amount >= 0
        /\ borrows[i].status \in {"borrowed", "overdue"} => borrows[i].fine_amount = 0

\* C32: when no request is in flight, current_borrowings of every user holds
\* exactly the ids of that user's loans that are not returned (borrowed or
\* overdue), each id once; a return made by a librarian takes the id out of
\* the list of the loan's owner, not of the librarian's.
C32_CurrentBorrowingsAreOpenLoans ==
    Quiet =>
        /\ \A u \in DOMAIN users :
              LET list == users[u].current_borrowings
                  Open == {borrows[i].id : i \in {j \in 1..Len(borrows) :
                                                     /\ borrows[j].user_id = u
                                                     /\ borrows[j].status # "returned"}}
              IN /\ {list[k] : k \in 1..Len(list)} = Open
                 /\ Len(list) = Cardinality(Open)
        /\ \A p \in Done("return") :
              (resp[p].status = 200 /\ req[p].user \in Librarians) =>
                  \A k \in 1..Len(users[loc[p].record.user_id].current_borrowings) :
                      users[loc[p].record.user_id].current_borrowings[k]
                          # req[p].borrow_id

====
